---- MODULE Spec2Model ----
(***************************************************************************)
(* Video upload pipeline of handler_upload_video.go (handlerUploadVideo,   *)
(* getVideoAspectRatio, processVideoForFastStart) together with the        *)
(* thumbnail handler that shares the record store with it.                 *)
(***************************************************************************)
EXTENDS Integers, Sequences, FiniteSets, TLC

(***************************************************************************)
(* float64 arithmetic as getVideoAspectRatio uses it.                      *)
(*                                                                         *)
(* A finite magnitude is a fixed-point bit vector, most significant bit    *)
(* first: IntBits bits before the binary point and FracBits after it.      *)
(* Every value the classification meets (a quotient of two integers below  *)
(* 2^IntBits, the constants 16/9, 9/16 and 0.01, and their differences)    *)
(* has its 53 significant bits, and the guard bit after them, inside the   *)
(* vector, so rounding to nearest-even is computed exactly.                *)
(***************************************************************************)
IntBits == 12
FracBits == 68
MantBits == 53
W == IntBits + FracBits

RECURSIVE Pow2(_)
Pow2(n) == IF n = 0 THEN 1 ELSE 2 * Pow2(n - 1)

\* the IntBits-bit binary expansion of the natural number n < 2^IntBits
IntPart(n) == [i \in 1..IntBits |-> (n \div Pow2(IntBits - i)) % 2]

\* 2^k modulo h, by repeated squaring
RECURSIVE PowMod(_, _)
PowMod(k, h) ==
    IF k = 0 THEN 1 % h
    ELSE LET half == PowMod(k \div 2, h) IN
         (half * half * (IF k % 2 = 1 THEN 2 ELSE 1)) % h

\* what is left of r/h, r < h, after n bits behind the binary point:
\* 0 iff the expansion is exact
FracRem(r, h, n) == (PowMod(n, h) * r) % h

\* the first n bits after the binary point of r/h, where r < h (long
\* division: bit k is the quotient of twice the remainder after k-1 bits)
FracPart(r, h, n) == [k \in 1..n |-> (2 * FracRem(r, h, k - 1)) \div h]

\* add one unit in position pos: the carry runs through the ones at and
\* above pos and stops at the nearest zero
AddAt(bits, pos) ==
    LET zs == {i \in 1..pos : bits[i] = 0 /\ \A j \in (i + 1)..pos : bits[j] = 1}
    IN [i \in 1..W |-> IF i \in zs THEN 1
                       ELSE IF i <= pos /\ \A z \in zs : i > z THEN 0
                       ELSE bits[i]]

\* round a magnitude to MantBits significant bits, ties to even;
\* sticky says that non-zero bits were dropped below position W
Round53(bits, sticky) ==
    LET ones == {i \in 1..W : bits[i] = 1} IN
    IF ones = {} THEN bits
    ELSE
      LET lead == CHOOSE i \in ones : \A j \in ones : i <= j
          last == lead + MantBits - 1
      IN
      IF last >= W THEN bits
      ELSE
        LET guard == bits[last + 1]
            rest  == sticky \/ \E i \in (last + 2)..W : bits[i] = 1
            kept  == [i \in 1..W |-> IF i <= last THEN bits[i] ELSE 0]
        IN IF guard = 1 /\ (rest \/ bits[last] = 1) THEN AddAt(kept, last)
           ELSE kept

\* a < b on magnitudes
MagLess(a, b) ==
    LET d == {i \in 1..W : a[i] # b[i]} IN
    /\ d # {}
    /\ LET i == CHOOSE k \in d : \A j \in d : k <= j IN a[i] < b[i]

\* a - b on positions lo..hi with a borrow coming in from below hi:
\* the difference bits and the borrow going out above lo
RECURSIVE SubRange(_, _, _, _, _)
SubRange(a, b, lo, hi, borrow) ==
    IF lo = hi
      THEN LET d == a[lo] - b[lo] - borrow IN
           [bits |-> <<IF d < 0 THEN d + 2 ELSE d>>,
            borrow |-> IF d < 0 THEN 1 ELSE 0]
      ELSE LET mid == (lo + hi) \div 2
               low == SubRange(a, b, mid + 1, hi, borrow)
               high == IF low.borrow = 1 THEN SubRange(a, b, lo, mid, 1)
                       ELSE SubRange(a, b, lo, mid, 0)
           IN [bits |-> high.bits \o low.bits, borrow |-> high.borrow]

\* a - b on magnitudes, a >= b
MagSub(a, b) == SubRange(a, b, 1, W, 0).bits

NaN == [cls |-> "nan"]
Inf(neg) == [cls |-> "inf", neg |-> neg]
Fin(neg, mag) == [cls |-> "fin", neg |-> neg, mag |-> mag]

\* float64(w) / float64(h) for naturals w, h < 2^IntBits
Float64Div(w, h) ==
    IF h = 0 THEN (IF w = 0 THEN NaN ELSE Inf(FALSE))
    ELSE Fin(FALSE,
             Round53(IntPart(w \div h) \o FracPart(w % h, h, FracBits),
                     FracRem(w % h, h, FracBits) # 0))

\* x - y in float64
Float64Sub(x, y) ==
    IF x.cls = "nan" \/ y.cls = "nan" THEN NaN
    ELSE IF x.cls = "inf"
      THEN (IF y.cls = "inf" /\ y.neg = x.neg THEN NaN ELSE Inf(x.neg))
    ELSE IF y.cls = "inf" THEN Inf(~y.neg)
    ELSE IF x.neg = y.neg
      THEN (IF MagLess(x.mag, y.mag)
              THEN Fin(~x.neg, Round53(MagSub(y.mag, x.mag), FALSE))
              ELSE Fin(x.neg /\ x.mag # y.mag,
                       Round53(MagSub(x.mag, y.mag), FALSE)))
    ELSE NaN   \* opposite signs do not arise: every operand here is >= 0

\* math.Abs
Float64Abs(x) ==
    IF x.cls = "nan" THEN NaN
    ELSE IF x.cls = "inf" THEN Inf(FALSE)
    ELSE Fin(FALSE, x.mag)

\* (mutant) NaN is ordered below every value
Float64LeTotal(x, y) ==
    IF x.cls = "nan" \/ y.cls = "nan" THEN TRUE
    ELSE IF x.cls = "inf" THEN y.cls = "inf"
    ELSE IF y.cls = "inf" THEN TRUE
    ELSE ~MagLess(y.mag, x.mag)

\* x <= y in float64 on non-negative operands (false when either is NaN)
Float64Le(x, y) ==
    IF x.cls = "nan" \/ y.cls = "nan" THEN FALSE
    ELSE IF x.cls = "inf" THEN y.cls = "inf"
    ELSE IF y.cls = "inf" THEN TRUE
    ELSE ~MagLess(y.mag, x.mag)

horizontal == Float64Div(16, 9)
vertical == Float64Div(9, 16)
tolerance == Float64Div(1, 100)

\* the classification at the end of getVideoAspectRatio
ClassifyAspect(width, height) ==
    LET ratio == Float64Div(width, height) IN
    IF Float64Le(Float64Abs(Float64Sub(ratio, horizontal)), tolerance)
      THEN "16:9"
    ELSE IF Float64Le(Float64Abs(Float64Sub(ratio, vertical)), tolerance)
      THEN "9:16"
    ELSE "other"

(***************************************************************************)
(* Requests, collaborators and their bounded input sets.                   *)
(***************************************************************************)
MaxName == 2          \* random suffixes os.CreateTemp can draw
RandLen == 1          \* bytes drawn by rand.Read (32 in the program)
MaxDim == 12          \* small dimensions classified exhaustively

Runs == {1, 2}        \* two video upload requests, handled concurrently
Users == {"alice", "bob"}
Assets == {"v1"}
Owner == [a \in Assets |-> "alice"]
Nil == "<nil>"
baseURL == "https://tubely.s3.us-east-1.amazonaws.com"
assetsRoot == "./assets"
localURL == "http://localhost:8091/assets"

\* path values of the request: a stored asset, a well-formed id that is not
\* stored, a string that is no UUID
VideoIDStrings == Assets \cup {"v9", "not-a-uuid"}
UUIDs == Assets \cup {"v9"}

\* uuid.Parse
ParseUUID(str) == [ok |-> str \in UUIDs, id |-> str]

\* Content-Type values of the multipart file part: type, subtype, parameters
ContentTypes ==
    { [type |-> "video", sub |-> "mp4", params |-> "", wellFormed |-> TRUE],
      [type |-> "VIDEO", sub |-> "MP4", params |-> "", wellFormed |-> TRUE],
      [type |-> "video", sub |-> "mp4", params |-> "codecs=avc1", wellFormed |-> TRUE],
      [type |-> "video", sub |-> "avi", params |-> "", wellFormed |-> TRUE],
      [type |-> "image", sub |-> "png", params |-> "", wellFormed |-> TRUE],
      [type |-> "", sub |-> "", params |-> "", wellFormed |-> FALSE] }

ToLower(str) ==
    CASE str = "VIDEO" -> "video"
      [] str = "MP4" -> "mp4"
      [] OTHER -> str

\* mime.ParseMediaType: lower-cases type/subtype, splits the parameters off,
\* fails on a value without a media type
ParseMediaType(ct) ==
    IF ct.wellFormed
      THEN [ok |-> TRUE, mediaType |-> <<ToLower(ct.type), ToLower(ct.sub)>>]
      ELSE [ok |-> FALSE, mediaType |-> <<"", "">>]

VideoMP4 == <<"video", "mp4">>
MediaTypeString(mt) == mt[1] \o "/" \o mt[2]

\* hex.EncodeToString
HexDigit == <<"0", "1", "2", "3", "4", "5", "6", "7",
              "8", "9", "a", "b", "c", "d", "e", "f">>
RECURSIVE HexEncode(_)
HexEncode(bytes) ==
    IF bytes = <<>> THEN ""
    ELSE HexDigit[(Head(bytes) \div 16) + 1] \o HexDigit[(Head(bytes) % 16) + 1]
           \o HexEncode(Tail(bytes))

\* base64.RawURLEncoding.EncodeToString
B64Digit == <<"A", "B", "C", "D", "E", "F", "G", "H", "I", "J", "K", "L", "M",
              "N", "O", "P", "Q", "R", "S", "T", "U", "V", "W", "X", "Y", "Z",
              "a", "b", "c", "d", "e", "f", "g", "h", "i", "j", "k", "l", "m",
              "n", "o", "p", "q", "r", "s", "t", "u", "v", "w", "x", "y", "z",
              "0", "1", "2", "3", "4", "5", "6", "7", "8", "9", "-", "_">>
RECURSIVE Base64RawURL(_)
Base64RawURL(bytes) ==
    IF bytes = <<>> THEN ""
    ELSE IF Len(bytes) = 1
      THEN B64Digit[(bytes[1] \div 4) + 1] \o B64Digit[((bytes[1] % 4) * 16) + 1]
    ELSE IF Len(bytes) = 2
      THEN B64Digit[(bytes[1] \div 4) + 1]
             \o B64Digit[((bytes[1] % 4) * 16 + bytes[2] \div 16) + 1]
             \o B64Digit[((bytes[2] % 16) * 4) + 1]
    ELSE B64Digit[(bytes[1] \div 4) + 1]
           \o B64Digit[((bytes[1] % 4) * 16 + bytes[2] \div 16) + 1]
           \o B64Digit[((bytes[2] % 16) * 4 + bytes[3] \div 64) + 1]
           \o B64Digit[(bytes[3] % 64) + 1]
           \o Base64RawURL(SubSeq(bytes, 4, Len(bytes)))

\* what rand.Read can fill the buffer with
ByteVals == {10, 255}
RandBuffers == [1..RandLen -> ByteVals]

\* getAssetPath: <random string>.<subtype of the media type>
getAssetPath(randStr, mediaType) == randStr \o "." \o mediaType[2]

\* cfg.getObjectURL
getObjectURL(key) == baseURL \o "/" \o key

\* cfg.getAssetDiskPath and cfg.getAssetURL of the thumbnail handler
getAssetDiskPath(assetPath) == assetsRoot \o "/" \o assetPath
getAssetURL(assetPath) == localURL \o "/" \o assetPath

\* (mutant) the cases of the switch are exchanged
BucketPrefixSwapped(ratio) ==
    CASE ratio = "16:9" -> "portrait/"
      [] ratio = "9:16" -> "landscape/"
      [] OTHER -> "other/"

\* the switch on ratio that prefixes the key
BucketPrefix(ratio) ==
    CASE ratio = "16:9" -> "landscape/"
      [] ratio = "9:16" -> "portrait/"
      [] OTHER -> "other/"

\* cfg.db.UpdateVideo: the record store keeps the record it is handed, all
\* of its fields, under the record's id
UpdateVideo(d, vid) == [d EXCEPT ![vid.ID] = vid]

\* os.CreateTemp("", "tubely-upload.mp4"): the pattern plus a random suffix
TempName(n) == "/tmp/tubely-upload.mp4" \o ToString(n)

\* outputPath of processVideoForFastStart
ProcessingPath(inputPath) == inputPath \o ".processing"

\* line 23
uploadLimit == 1073741824

\* sizes in bytes of the file part of the request body
BodySizes == {2, uploadLimit, uploadLimit + 1}

\* http.MaxBytesReader(w, body, limit): the number of bytes the reader it
\* returns delivers of a body of n bytes; the body it is given is untouched
MaxBytesReader(n, limit) == IF n > limit THEN limit ELSE n

\* line 24: the reader MaxBytesReader returns is dropped and r.Body is never
\* replaced, so what FormFile reads is the body as it was sent
RequestBody(n) == LET limited == MaxBytesReader(n, uploadLimit) IN n

\* geometry the probe can report for the first stream
ProbeDims == { <<1920, 1080>>, <<1080, 1920>>, <<1000, 1000>>,
               <<229, 400>>, <<16, 0>>, <<0, 0>> }
AspectOf == [d \in ProbeDims |-> ClassifyAspect(d[1], d[2])]

(***************************************************************************)
(* State.                                                                  *)
(*   fs          local temporary storage: path -> content of the file      *)
(*   objects     the object store: key -> object                           *)
(*   db          the record store: asset id -> record                      *)
(*   assetFiles  files saved under the assets root by thumbnail uploads    *)
(*   run         the locals of each handlerUploadVideo call                *)
(*   thumb       the locals of the handlerUploadThumbnail call             *)
(*   aw, ah, aout  the classification taken on its own (see the end)       *)
(***************************************************************************)
VARIABLES fs, objects, db, assetFiles, run, thumb, aw, ah, aout

vars == <<fs, objects, db, assetFiles, run, thumb, aw, ah, aout>>
avars == <<aw, ah, aout>>
pvars == <<fs, objects, db, assetFiles, run, thumb>>

\* a file of local temporary storage: which entity of the pipeline it is,
\* the run that wrote it, what it holds and how many bytes
File(role, by, data, size) == [role |-> role, by |-> by, data |-> data, size |-> size]
NoVideo == [ID |-> Nil, UserID |-> Nil, VideoURL |-> Nil, ThumbnailURL |-> Nil]

FsWrite(f, p, c) == [q \in (DOMAIN f) \cup {p} |-> IF q = p THEN c ELSE f[q]]
FsRemove(f, p) == [q \in (DOMAIN f) \ {p} |-> f[q]]

InitRun ==
    [pc |-> "start", videoID |-> Nil, userID |-> Nil, vid |-> NoVideo,
     file |-> 0, mediaType |-> <<"", "">>, tempFile |-> Nil,
     processedFilePath |-> Nil, ratio |-> "", fileKey |-> Nil,
     defers |-> <<>>, status |-> 0, steps |-> <<>>]

InitThumb ==
    [pc |-> "start", videoID |-> Nil, userID |-> Nil, vid |-> NoVideo,
     mediaType |-> <<"", "">>, assetPath |-> Nil, status |-> 0]

PipelineInit ==
    /\ fs = <<>>
    /\ objects = <<>>
    /\ db = [a \in Assets |->
               [ID |-> a, UserID |-> Owner[a], VideoURL |-> Nil, ThumbnailURL |-> Nil]]
    /\ assetFiles = {}
    /\ run = [r \in Runs |-> InitRun]
    /\ thumb = InitThumb

Init ==
    /\ PipelineInit
    /\ aw = 0 /\ ah = 0 /\ aout = "none"

Step(op, arg) == [op |-> op, arg |-> arg]

\* a deferred call: os.Remove of the path held by a local, or Close of one
Call(op, of, path) == [op |-> op, of |-> of, path |-> path]

\* defer: the call goes on top of the run's stack
Defer(rec, call) == [rec EXCEPT !.defers = <<call>> \o rec.defers]

\* the run's record of what it has done so far
Did(rec, op, arg) == [rec EXCEPT !.steps = Append(rec.steps, Step(op, arg))]

\* respondWithError / respondWithJSON followed by return
Return(rec, code) == [rec EXCEPT !.status = code, !.pc = "return"]

\* (mutant) the deferred os.Remove calls are never registered
UnwindKeepsFiles(f, defers) == f

\* local storage after the deferred calls ran, the top of the stack first
RECURSIVE Unwind(_, _)
Unwind(f, defers) ==
    IF defers = <<>> THEN f
    ELSE Unwind(IF Head(defers).op = "Remove"
                  THEN FsRemove(f, Head(defers).path) ELSE f,
                Tail(defers))

\* the deferred calls in the order they ran
UnwindSteps(defers) == [i \in 1..Len(defers) |-> Step(defers[i].op, defers[i].of)]

\* the run once it has returned: its locals are gone, the response and the
\* record of what it did remain
Ended(rec) ==
    [InitRun EXCEPT !.pc = "done", !.status = rec.status,
                    !.steps = rec.steps \o UnwindSteps(rec.defers)]

\* a step of run r that leaves it with the locals rec and local storage f:
\* when the step returns, the deferred calls run before the handler is left
Commit(r, rec, f) ==
    IF rec.pc = "return"
      THEN /\ run' = [run EXCEPT ![r] = Ended(rec)]
           /\ fs' = Unwind(f, rec.defers)
      ELSE /\ run' = [run EXCEPT ![r] = rec]
           /\ fs' = f

(***************************************************************************)
(* handlerUploadVideo                                                      *)
(***************************************************************************)
\* lines 26-45: the path value and the bearer token
VAuth(r) ==
    /\ run[r].pc = "start"
    /\ \E idStr \in VideoIDStrings, auth \in {"no-token", "bad-jwt"} \cup Users :
         LET rec == [run[r] EXCEPT !.videoID = idStr] IN
         Commit(r, IF ~ParseUUID(idStr).ok THEN Return(rec, 400)
                   ELSE IF auth \notin Users THEN Return(rec, 401)
                   ELSE [rec EXCEPT !.userID = auth, !.pc = "lookup"],
                fs)
    /\ UNCHANGED <<objects, db, assetFiles, thumb, aw, ah, aout>>

\* (mutant) the ownership check is missing
NoOwnerCheck(vid, userID) == FALSE

\* line 53
NotOwner(vid, userID) == vid.UserID # userID

\* lines 47-56: the record and the ownership check
VLookup(r) ==
    /\ run[r].pc = "lookup"
    /\ \E dbOK \in BOOLEAN :
         LET found == dbOK /\ run[r].videoID \in DOMAIN db
             rec == Did(run[r], "GetVideo",
                        [id |-> run[r].videoID, caller |-> run[r].userID,
                         found |-> found])
         IN
         Commit(r, IF ~found THEN Return(rec, 500)
                   ELSE IF NotOwner(db[rec.videoID], rec.userID)
                     THEN Return([rec EXCEPT !.vid = db[rec.videoID]], 401)
                   ELSE [rec EXCEPT !.vid = db[rec.videoID], !.pc = "form"],
                fs)
    /\ UNCHANGED <<objects, db, assetFiles, thumb, aw, ah, aout>>

\* (mutant) only the type, not the subtype, is compared
NotVideo(mediaType) == mediaType[1] # "video"

\* line 73
NotMP4(mediaType) == mediaType # VideoMP4

\* lines 58-76: the form file and its declared media type
VForm(r) ==
    /\ run[r].pc = "form"
    /\ \E formOK \in BOOLEAN, ct \in ContentTypes, n \in BodySizes :
         LET parsed == ParseMediaType(ct)
             rec == Defer(Did([run[r] EXCEPT !.mediaType = parsed.mediaType,
                                             !.file = RequestBody(n)],
                              "FormFile", MediaTypeString(parsed.mediaType)),
                          Call("Close", "file", Nil))
         IN Commit(r, IF ~formOK THEN Return(run[r], 500)
                      ELSE IF ~parsed.ok THEN Return(rec, 400)
                      ELSE IF NotMP4(rec.mediaType) THEN Return(rec, 400)
                      ELSE [rec EXCEPT !.pc = "create"],
                   fs)
    /\ UNCHANGED <<objects, db, assetFiles, thumb, aw, ah, aout>>

\* (mutant) the name is not tested against the files that exist
CreateTempAny(f, n) == TRUE

\* line 79: os.CreateTemp opens the file with O_EXCL and draws another
\* suffix when the name is taken
CreateTempFree(f, n) == TempName(n) \notin DOMAIN f

\* lines 78-85: the StagedUpload file
VCreateTemp(r) ==
    /\ run[r].pc = "create"
    /\ \/ Commit(r, Return(run[r], 500), fs)
       \/ \E n \in 1..MaxName :
            /\ CreateTempFree(fs, n)
            /\ Commit(r, Defer(Defer(Did([run[r] EXCEPT !.tempFile = TempName(n),
                                                        !.pc = "copy"],
                                         "CreateTemp", "tempFile"),
                                     Call("Remove", "tempFile", TempName(n))),
                               Call("Close", "tempFile", Nil)),
                      FsWrite(fs, TempName(n), File("staged", r, "", 0)))
    /\ UNCHANGED <<objects, db, assetFiles, thumb, aw, ah, aout>>

\* line 87: io.Copy, whose result is dropped
VCopy(r) ==
    /\ run[r].pc = "copy"
    /\ \E copyErr \in BOOLEAN :
         Commit(r, Did([run[r] EXCEPT !.pc = "remux"], "Copy",
                       IF copyErr THEN "write error" ELSE "ok"),
                FsWrite(fs, run[r].tempFile,
                        File("staged", r, "upload",
                             IF copyErr THEN run[r].file \div 2 ELSE run[r].file)))
    /\ UNCHANGED <<objects, db, assetFiles, thumb, aw, ah, aout>>

\* what ffmpeg can do: its exit status and what it left at the output path
RemuxOutcomes ==
    { [exit |-> 1, wrote |-> "nothing"], [exit |-> 1, wrote |-> "empty"],
      [exit |-> 1, wrote |-> "partial"],
      [exit |-> 0, wrote |-> "nothing"], [exit |-> 0, wrote |-> "empty"],
      [exit |-> 0, wrote |-> "all"] }

\* lines 201-206: ffmpeg is started without -y and without a terminal, so
\* it leaves a file that is already at the output path alone and exits
\* non-zero
FfmpegCan(f, inputPath, outcome) ==
    ProcessingPath(inputPath) \in DOMAIN f =>
      outcome = [exit |-> 1, wrote |-> "nothing"]

\* local storage after ffmpeg ran for run r
RemuxWrite(f, r, inputPath, outcome) ==
    LET out == ProcessingPath(inputPath) IN
    CASE outcome.wrote = "nothing" -> f
      [] outcome.wrote = "empty" -> FsWrite(f, out, File("remuxed", r, "", 0))
      [] outcome.wrote = "partial" ->
           FsWrite(f, out, File("remuxed", r, "faststart-partial", 1))
      [] OTHER ->
           FsWrite(f, out, File("remuxed", r, "faststart", f[inputPath].size))

\* (mutant) the size of the output file is not looked at
processWithoutSizeCheck(f, inputPath, outcome) ==
    LET outputPath == ProcessingPath(inputPath) IN
    IF outcome.exit # 0 THEN [err |-> TRUE, path |-> ""]
    ELSE IF outputPath \notin DOMAIN f THEN [err |-> TRUE, path |-> ""]
    ELSE [err |-> FALSE, path |-> outputPath]

\* lines 198-223: the result of processVideoForFastStart on the storage f
\* that ffmpeg left behind
processVideoForFastStart(f, inputPath, outcome) ==
    LET outputPath == ProcessingPath(inputPath) IN
    IF outcome.exit # 0 THEN [err |-> TRUE, path |-> ""]
    ELSE IF outputPath \notin DOMAIN f THEN [err |-> TRUE, path |-> ""]
    ELSE IF f[outputPath].size = 0 THEN [err |-> TRUE, path |-> ""]
    ELSE [err |-> FALSE, path |-> outputPath]

\* lines 89-95
VRemux(r) ==
    /\ run[r].pc = "remux"
    /\ \E outcome \in RemuxOutcomes :
         /\ FfmpegCan(fs, run[r].tempFile, outcome)
         /\ LET f == RemuxWrite(fs, r, run[r].tempFile, outcome)
                res == processVideoForFastStart(f, run[r].tempFile, outcome)
                out == ProcessingPath(run[r].tempFile)
                rec == Did(run[r], "Remux",
                           [input |-> "tempFile", exit |-> outcome.exit,
                            wrote |-> outcome.wrote,
                            size |-> IF out \in DOMAIN f THEN f[out].size ELSE -1])
            IN Commit(r, IF res.err THEN Return(rec, 500)
                         ELSE Defer([rec EXCEPT !.processedFilePath = res.path,
                                                !.pc = "open"],
                                    Call("Remove", "processedFilePath", res.path)),
                      f)
    /\ UNCHANGED <<objects, db, assetFiles, thumb, aw, ah, aout>>

\* lines 97-102
VOpen(r) ==
    /\ run[r].pc = "open"
    /\ \E openOK \in BOOLEAN :
         LET rec == Did(run[r], "Open",
                        [path |-> "processedFilePath",
                         ok |-> openOK /\ run[r].processedFilePath \in DOMAIN fs]) IN
         Commit(r, IF ~openOK \/ rec.processedFilePath \notin DOMAIN fs
                     THEN Return(rec, 500)
                   ELSE Defer([rec EXCEPT !.pc = "probe"],
                              Call("Close", "processedFile", Nil)),
                fs)
    /\ UNCHANGED <<objects, db, assetFiles, thumb, aw, ah, aout>>

\* what ffprobe can do: its exit status, whether its output is JSON, and
\* the geometry of the streams it reports
ProbeOutcomes ==
    { [exit |-> 1, parsable |-> FALSE, streams |-> <<>>],
      [exit |-> 0, parsable |-> FALSE, streams |-> <<>>],
      [exit |-> 0, parsable |-> TRUE, streams |-> <<>>] }
    \cup { [exit |-> 0, parsable |-> TRUE, streams |-> <<d>>] : d \in ProbeDims }

\* (mutant) the check for an empty stream list is missing
getVideoAspectRatioAnyStreams(outcome) ==
    IF outcome.exit # 0 THEN [err |-> TRUE, ratio |-> ""]
    ELSE IF ~outcome.parsable THEN [err |-> TRUE, ratio |-> ""]
    ELSE [err |-> FALSE,
          ratio |-> IF Len(outcome.streams) = 0 THEN "other"
                    ELSE AspectOf[outcome.streams[1]]]

\* lines 154-196
getVideoAspectRatio(outcome) ==
    IF outcome.exit # 0 THEN [err |-> TRUE, ratio |-> ""]
    ELSE IF ~outcome.parsable THEN [err |-> TRUE, ratio |-> ""]
    ELSE IF Len(outcome.streams) = 0 THEN [err |-> TRUE, ratio |-> ""]
    ELSE [err |-> FALSE, ratio |-> AspectOf[outcome.streams[1]]]

\* line 105: the file the probe is given
ProbeInput(rec) == rec.tempFile

\* lines 104-109
VProbe(r) ==
    /\ run[r].pc = "probe"
    /\ \E outcome \in ProbeOutcomes :
         LET res == getVideoAspectRatio(outcome)
             rec == Did(run[r], "Probe",
                        [input |-> fs[ProbeInput(run[r])].role,
                         exit |-> outcome.exit,
                         parsable |-> outcome.parsable,
                         streams |-> Len(outcome.streams)])
         IN Commit(r, IF res.err THEN Return(rec, 500)
                      ELSE [rec EXCEPT !.ratio = res.ratio, !.pc = "rand"],
                   fs)
    /\ UNCHANGED <<objects, db, assetFiles, thumb, aw, ah, aout>>

\* lines 111-129: the random token and the key
VRand(r) ==
    /\ run[r].pc = "rand"
    /\ \/ Commit(r, Return(Did(run[r], "Rand", "failed"), 500), fs)
       \/ \E randBytes \in RandBuffers :
            Commit(r, [Did(run[r], "Rand", "ok") EXCEPT
                         !.fileKey = BucketPrefix(run[r].ratio)
                                       \o getAssetPath(HexEncode(randBytes),
                                                       run[r].mediaType),
                         !.pc = "put"],
                   fs)
    /\ UNCHANGED <<objects, db, assetFiles, thumb, aw, ah, aout>>

\* (mutant) the error of PutObject is dropped
PutUnchecked(rec, putOK) == [rec EXCEPT !.pc = "persist"]

\* lines 137-140
AfterPut(rec, putOK) ==
    IF putOK THEN [rec EXCEPT !.pc = "persist"] ELSE Return(rec, 424)

\* (mutant) the staged file is uploaded, as before the remux was added
PutBodyStaged(rec) == rec.tempFile

\* lines 97 and 134: the body is the file opened at processedFilePath
PutBody(rec) == rec.processedFilePath

\* lines 131-140: PutObject with the processed file as body
VPut(r) ==
    /\ run[r].pc = "put"
    /\ \E putOK \in BOOLEAN :
         LET rec == Did(run[r], "PutObject", IF putOK THEN "ok" ELSE "failed") IN
         /\ objects' = IF putOK
                         THEN FsWrite(objects, rec.fileKey,
                                [Body |-> fs[PutBody(rec)],
                                 ContentType |-> MediaTypeString(rec.mediaType)])
                         ELSE objects
         /\ Commit(r, AfterPut(rec, putOK), fs)
    /\ UNCHANGED <<db, assetFiles, thumb, aw, ah, aout>>

\* (mutant) the key is stored where the URL belongs
WithBareKey(vid, fileKey) == [vid EXCEPT !.VideoURL = fileKey]

\* lines 143-144
WithVideoURL(vid, fileKey) == [vid EXCEPT !.VideoURL = getObjectURL(fileKey)]

\* (mutant) the error of UpdateVideo is dropped
UpdateUnchecked(updateOK) == 200

\* lines 146-151
AfterUpdate(updateOK) == IF updateOK THEN 200 ELSE 500

\* lines 142-152: the URL goes into the looked-up record, which is handed back
VPersist(r) ==
    /\ run[r].pc = "persist"
    /\ \E updateOK \in BOOLEAN :
         LET vid == WithVideoURL(run[r].vid, run[r].fileKey)
             rec == Did([run[r] EXCEPT !.vid = vid], "UpdateVideo",
                        IF updateOK THEN "ok" ELSE "failed")
         IN /\ db' = IF updateOK THEN UpdateVideo(db, vid) ELSE db
            /\ Commit(r, Return(rec, AfterUpdate(updateOK)), fs)
    /\ UNCHANGED <<objects, assetFiles, thumb, aw, ah, aout>>

(***************************************************************************)
(* handlerUploadThumbnail                                                  *)
(***************************************************************************)
ThumbReturn(code) == [InitThumb EXCEPT !.status = code, !.pc = "done"]

ThumbTypes ==
    { [type |-> "image", sub |-> "png", params |-> "", wellFormed |-> TRUE],
      [type |-> "image", sub |-> "jpeg", params |-> "", wellFormed |-> TRUE],
      [type |-> "video", sub |-> "mp4", params |-> "", wellFormed |-> TRUE],
      [type |-> "", sub |-> "", params |-> "", wellFormed |-> FALSE] }

\* lines 17-34
TAuth ==
    /\ thumb.pc = "start"
    /\ \E idStr \in VideoIDStrings, auth \in {"no-token", "bad-jwt"} \cup Users :
         thumb' = IF ~ParseUUID(idStr).ok THEN ThumbReturn(400)
                  ELSE IF auth \notin Users THEN ThumbReturn(401)
                  ELSE [thumb EXCEPT !.videoID = idStr, !.userID = auth,
                                     !.pc = "form"]
    /\ UNCHANGED <<fs, objects, db, assetFiles, run, aw, ah, aout>>

\* lines 38-57
TForm ==
    /\ thumb.pc = "form"
    /\ \E formOK \in BOOLEAN, ct \in ThumbTypes :
         LET parsed == ParseMediaType(ct) IN
         thumb' = IF ~formOK \/ ~parsed.ok THEN ThumbReturn(400)
                  ELSE IF parsed.mediaType # <<"image", "jpeg">>
                          /\ parsed.mediaType # <<"image", "png">>
                    THEN ThumbReturn(400)
                  ELSE [thumb EXCEPT !.mediaType = parsed.mediaType,
                                     !.pc = "lookup"]
    /\ UNCHANGED <<fs, objects, db, assetFiles, run, aw, ah, aout>>

\* lines 59-67
TLookup ==
    /\ thumb.pc = "lookup"
    /\ \E dbOK \in BOOLEAN :
         thumb' = IF ~dbOK \/ thumb.videoID \notin DOMAIN db THEN ThumbReturn(500)
                  ELSE IF db[thumb.videoID].UserID # thumb.userID
                    THEN ThumbReturn(401)
                  ELSE [thumb EXCEPT !.vid = db[thumb.videoID], !.pc = "rand"]
    /\ UNCHANGED <<fs, objects, db, assetFiles, run, aw, ah, aout>>

\* what rand.Read fills the thumbnail handler's buffer with
ThumbRandBuffers == {[i \in 1..RandLen |-> 10]}

\* lines 69-77
TRand ==
    /\ thumb.pc = "rand"
    /\ \/ thumb' = ThumbReturn(500)
       \/ \E randBytes \in ThumbRandBuffers :
            thumb' = [thumb EXCEPT
                        !.assetPath = getAssetPath(Base64RawURL(randBytes),
                                                   thumb.mediaType),
                        !.pc = "create"]
    /\ UNCHANGED <<fs, objects, db, assetFiles, run, aw, ah, aout>>

\* lines 79-89: the file under the assets root and the copy into it
TSave ==
    /\ thumb.pc = "create"
    /\ \E outcome \in {"create failed", "copy failed", "ok"} :
         /\ assetFiles' = IF outcome = "create failed" THEN assetFiles
                          ELSE assetFiles \cup {getAssetDiskPath(thumb.assetPath)}
         /\ thumb' = IF outcome = "ok" THEN [thumb EXCEPT !.pc = "persist"]
                     ELSE ThumbReturn(500)
    /\ UNCHANGED <<fs, objects, db, run, aw, ah, aout>>

\* lines 91-99
TPersist ==
    /\ thumb.pc = "persist"
    /\ \E updateOK \in BOOLEAN :
         LET vid == [thumb.vid EXCEPT !.ThumbnailURL = getAssetURL(thumb.assetPath)]
         IN IF updateOK
              THEN /\ db' = UpdateVideo(db, vid)
                   /\ thumb' = ThumbReturn(200)
              ELSE /\ UNCHANGED db
                   /\ thumb' = ThumbReturn(500)
    /\ UNCHANGED <<fs, objects, assetFiles, run, aw, ah, aout>>

VideoStep(r) ==
    \/ VAuth(r) \/ VLookup(r) \/ VForm(r) \/ VCreateTemp(r) \/ VCopy(r)
    \/ VRemux(r) \/ VOpen(r) \/ VProbe(r) \/ VRand(r) \/ VPut(r)
    \/ VPersist(r)

ThumbStep == TAuth \/ TForm \/ TLookup \/ TRand \/ TSave \/ TPersist

\* the video upload requests among themselves
Next == \E r \in Runs : VideoStep(r)

Spec == Init /\ [][Next]_vars

\* one video upload request next to a thumbnail upload for the same asset
SharedNext == VideoStep(1) \/ ThumbStep

SpecShared == Init /\ [][SharedNext]_vars

(***************************************************************************)
(* The classification on its own: every pair of a bounded set of reported  *)
(* dimensions is classified once.                                          *)
(***************************************************************************)
SampleDims == {221, 229, 400, 900, 1000, 1080, 1591, 1609, 1920}
Dims == (0..MaxDim) \cup SampleDims

AspectInit ==
    /\ PipelineInit
    /\ aw \in Dims
    /\ ah \in Dims
    /\ aout = "none"

AspectClassify ==
    /\ aout = "none"
    /\ aout' = ClassifyAspect(aw, ah)
    /\ UNCHANGED <<aw, ah>>
    /\ UNCHANGED pvars

AspectNext == AspectClassify

SpecAspect == AspectInit /\ [][AspectNext]_vars

(***************************************************************************)
(* Properties.                                                             *)
(***************************************************************************)
\* the operations run r has performed, and the arguments it logged for one
Ops(r) == {run[r].steps[i].op : i \in DOMAIN run[r].steps}
StepArgs(r, op) ==
    {run[r].steps[i].arg : i \in {j \in DOMAIN run[r].steps : run[r].steps[j].op = op}}
OpsAfter(r) == {run'[r].steps[i].op : i \in DOMAIN run'[r].steps}
StepArgsAfter(r, op) ==
    {run'[r].steps[i].arg : i \in {j \in DOMAIN run'[r].steps : run'[r].steps[j].op = op}}

\* the files on local temporary storage that run r wrote
FilesBy(r) == {p \in DOMAIN fs : fs[p].by = r}
FilesByAfter(r) == {p \in DOMAIN fs' : fs'[p].by = r}

Done(r) == run[r].pc = "done"

\* the run failed at the remux step: processVideoForFastStart was called
\* and the handler never got to os.Open
FailedAtRemux(r) == Done(r) /\ "Remux" \in Ops(r) /\ "Open" \notin Ops(r)

\* C1: a run that fails at the remux step leaves none of its files on local
\* temporary storage once it has completed, neither the StagedUpload nor a
\* RemuxedArtifact at '<staged path>.processing'.
C1_NoFileAfterRemuxFailure ==
    \A r \in Runs : FailedAtRemux(r) => FilesBy(r) = {}

\* C2: once the StagedUpload file has been created, it is gone when the run
\* has ended, whatever the exit path.
C2_StagedRemovedAtEnd ==
    \A r \in Runs :
      Done(r) => \A p \in FilesBy(r) : fs[p].role # "staged"

\* a run that staged its upload and succeeded next to one that staged its
\* upload and failed, both ended
C2_Witness ==
    /\ Done(1) /\ run[1].status = 200 /\ "CreateTemp" \in Ops(1)
    /\ Done(2) /\ run[2].status = 500 /\ "CreateTemp" \in Ops(2)

\* C3: a step of a run whose object-store put has not been acknowledged
\* leaves the record store as it is and is no persist call.
C3_PersistOnlyAfterAckedPut ==
    [][\A r \in Runs :
         (run'[r] # run[r] /\ "ok" \notin StepArgs(r, "PutObject"))
           => (db' = db /\ "UpdateVideo" \notin OpsAfter(r))]_vars

\* a run whose put failed has ended, with the URL another run stored intact
C3_Witness ==
    \E r \in Runs :
      /\ Done(r) /\ run[r].status = 424
      /\ "failed" \in StepArgs(r, "PutObject")
      /\ \E a \in Assets : db[a].VideoURL # Nil

C5_NonOwnerRejected ==
    \A r \in Runs :
      \A g \in StepArgs(r, "GetVideo") :
        (g.found /\ db[g.id].UserID # g.caller) =>
          /\ Done(r) /\ run[r].status = 401
          /\ Ops(r) \cap {"CreateTemp", "PutObject", "UpdateVideo"} = {}
          /\ FilesBy(r) = {}

C5_Witness ==
    \E r \in Runs :
      \E g \in StepArgs(r, "GetVideo") :
        /\ g.found /\ g.caller = "bob" /\ db[g.id].UserID = "alice"
        /\ Done(r) /\ run[r].status = 401

\* |w/h - 16/9| <= 1/100 and |w/h - 9/16| <= 1/100 over the rationals
NearLandscape(w, h) ==
    LET d == 9 * w - 16 * h IN 100 * (IF d < 0 THEN -d ELSE d) <= 9 * h
NearPortrait(w, h) ==
    LET d == 16 * w - 9 * h IN 100 * (IF d < 0 THEN -d ELSE d) <= 16 * h

\* C6: for positive width and height the classification is 16:9 exactly
\* when |width/height - 16/9| <= 0.01, otherwise 9:16 exactly when
\* |width/height - 9/16| <= 0.01, otherwise other.
C6_ClassificationByRatio ==
    (aout # "none" /\ aw > 0 /\ ah > 0) =>
      aout = (IF NearLandscape(aw, ah) THEN "16:9"
              ELSE IF NearPortrait(aw, ah) THEN "9:16"
              ELSE "other")

\* the bucket names of the three classifications
BucketName(ratio) ==
    CASE ratio = "16:9" -> "landscape"
      [] ratio = "9:16" -> "portrait"
      [] OTHER -> "other"

\* C7: when a run succeeds, its key is '<bucket>/<token>.<ext>' with the
\* bucket of the classification the probe gave, the object was put under
\* that key, and the URL stored in the record is baseURL, "/" and that key.
C7_KeyAndURL ==
    [][\A r \in Runs :
         (run[r].pc = "persist" /\ run'[r].status = 200) =>
           LET key == run[r].fileKey IN
           /\ \E randBytes \in RandBuffers :
                key = BucketName(run[r].ratio) \o "/" \o HexEncode(randBytes) \o ".mp4"
           /\ key \in DOMAIN objects
           /\ db'[run[r].vid.ID].VideoURL = baseURL \o "/" \o key]_vars

\* a run succeeded and the record holds the URL of a landscape key
C7_Witness ==
    \E r \in Runs :
      /\ Done(r) /\ run[r].status = 200
      /\ \E a \in Assets, randBytes \in RandBuffers :
           LET key == "landscape/" \o HexEncode(randBytes) \o ".mp4" IN
           /\ key \in DOMAIN objects
           /\ db[a].VideoURL = baseURL \o "/" \o key

\* C8 as stated: once set, the stored video URL of an asset never changes.
C8_URLSetOnce ==
    [][\A a \in Assets :
         db[a].VideoURL # Nil => db'[a].VideoURL = db[a].VideoURL]_vars

\* C8 amended: the stored video URL of an asset changes only when a run for
\* that asset persists successfully, and then to the URL of that run's key,
\* never back to unset; a later successful run replaces the earlier URL.
C8_URLSetByEachSuccess ==
    [][\A a \in Assets :
         db'[a].VideoURL # db[a].VideoURL =>
           /\ db'[a].VideoURL # Nil
           /\ \E r \in Runs :
                /\ run[r].pc = "persist" /\ run'[r].status = 200
                /\ run[r].vid.ID = a
                /\ db'[a].VideoURL = getObjectURL(run[r].fileKey)]_vars

\* both runs succeeded under different keys: the URL was set twice
C8_Witness ==
    /\ Done(1) /\ run[1].status = 200
    /\ Done(2) /\ run[2].status = 200
    /\ Cardinality(DOMAIN objects) = 2
    /\ \E a \in Assets : db[a].VideoURL # Nil

\* C9: when io.Copy stops with a write error the run ends with status 500
\* and performs no remux, probe, put or record write.
C9_CopyErrorFatal ==
    \A r \in Runs :
      "write error" \in StepArgs(r, "Copy") =>
        /\ Ops(r) \cap {"Remux", "Probe", "PutObject", "UpdateVideo"} = {}
        /\ Done(r) => run[r].status = 500

\* C10: when UpdateVideo fails after an acknowledged put, the run ends with
\* status 500, the object store is left as it is with the object under the
\* run's key, the record store is left as it is, and none of the run's
\* temporary files remains.
C10_PersistFailure ==
    [][\A r \in Runs :
         (run[r].pc = "persist" /\ "failed" \in StepArgsAfter(r, "UpdateVideo")) =>
           /\ run'[r].pc = "done" /\ run'[r].status = 500
           /\ objects' = objects /\ run[r].fileKey \in DOMAIN objects'
           /\ db' = db
           /\ FilesByAfter(r) = {}]_vars

C10_Witness ==
    \E r \in Runs :
      /\ Done(r) /\ run[r].status = 500
      /\ "failed" \in StepArgs(r, "UpdateVideo")
      /\ objects # <<>>

\* C13: the staged upload never holds more than 2^30 bytes, and a run whose
\* request body is larger than that does not reach the object-store put.
C13_UploadCapped ==
    /\ \A p \in DOMAIN fs : fs[p].role = "staged" => fs[p].size <= Pow2(30)
    /\ \A r \in Runs : run[r].file > Pow2(30) => "PutObject" \notin Ops(r)

\* the steps of the handler that run r has taken, without the deferred calls
Deferred == {"Close", "Remove"}
OpSeq(r) ==
    LET own == SelectSeq(run[r].steps, LAMBDA s : s.op \notin Deferred)
    IN [i \in 1..Len(own) |-> own[i].op]

IsPrefix(a, b) == Len(a) <= Len(b) /\ \A i \in 1..Len(a) : a[i] = b[i]

\* the pipeline order the claim gives (probe, then remux) and the order of
\* the statements of the handler (remux, then probe)
ProbeFirst ==
    <<"GetVideo", "FormFile", "CreateTemp", "Copy", "Probe", "Remux", "Open",
      "Rand", "PutObject", "UpdateVideo">>
RemuxFirst ==
    <<"GetVideo", "FormFile", "CreateTemp", "Copy", "Remux", "Open", "Probe",
      "Rand", "PutObject", "UpdateVideo">>

\* a step whose failure the handler tests for, and which failed
CheckedFailure(s) ==
    CASE s.op = "GetVideo" -> ~s.arg.found
      [] s.op = "FormFile" -> s.arg # "video/mp4"
      [] s.op = "Remux" -> s.arg.exit # 0 \/ s.arg.size <= 0
      [] s.op = "Open" -> ~s.arg.ok
      [] s.op = "Probe" -> s.arg.exit # 0 \/ ~s.arg.parsable \/ s.arg.streams = 0
      [] s.op \in {"Rand", "PutObject", "UpdateVideo"} -> s.arg = "failed"
      [] OTHER -> FALSE

\* after a failed step the run has ended with an error status and has done
\* nothing but its deferred calls
FailureEndsRun(r) ==
    \A i \in DOMAIN run[r].steps :
      CheckedFailure(run[r].steps[i]) =>
        /\ Done(r) /\ run[r].status \notin {0, 200}
        /\ \A j \in (i + 1)..Len(run[r].steps) : run[r].steps[j].op \in Deferred

LivePaths(r) ==
    IF run[r].tempFile = Nil THEN {}
    ELSE {run[r].tempFile, ProcessingPath(run[r].tempFile)}

\* the paths of different runs differ, and the files a run refers to exist
\* and are its own
PathsOwned ==
    /\ \A r1, r2 \in Runs : r1 # r2 => LivePaths(r1) \cap LivePaths(r2) = {}
    /\ \A r \in Runs :
         /\ run[r].tempFile # Nil =>
              /\ run[r].tempFile \in DOMAIN fs
              /\ fs[run[r].tempFile].by = r
         /\ run[r].processedFilePath # Nil =>
              /\ run[r].processedFilePath = ProcessingPath(run[r].tempFile)
              /\ run[r].processedFilePath \in DOMAIN fs
              /\ fs[run[r].processedFilePath].by = r

\* no handle is used after the file it is open on was removed
NoUseAfterRemove(r) ==
    \A i, j \in DOMAIN run[r].steps :
      (i < j /\ run[r].steps[i].op = "Remove") =>
        LET removed == run[r].steps[i].arg
            later == run[r].steps[j]
        IN /\ later.op # "Remove" \/ later.arg # removed
           /\ later.op = "Close" =>
                /\ removed = "tempFile" => later.arg # "tempFile"
                /\ removed = "processedFilePath" => later.arg # "processedFile"

\* a step of run r writes and removes only files that r wrote, and puts
\* only such a file into the object store
TouchesOwnFiles(r) ==
    /\ \A p \in DOMAIN fs :
         (p \notin DOMAIN fs' \/ fs'[p] # fs[p]) => fs[p].by = r
    /\ \A p \in (DOMAIN fs') \ (DOMAIN fs) : fs'[p].by = r
    /\ \A k \in DOMAIN objects' :
         (k \notin DOMAIN objects \/ objects'[k] # objects[k])
           => objects'[k].Body.by = r

\* C15: the staged and remuxed paths of different live runs are pairwise
\* distinct, no run reads, writes or removes a temporary file of another
\* run, and no run uses one of its files after its cleanup removed it.
C15_TempFilesOwned ==
    /\ [](PathsOwned /\ \A r \in Runs : NoUseAfterRemove(r))
    /\ [][\A r \in Runs : run'[r] # run[r] => TouchesOwnFiles(r)]_vars

\* both runs hold a staged and a remuxed file at the same time
C15_Witness ==
    /\ run[1].processedFilePath # Nil /\ run[2].processedFilePath # Nil
    /\ Cardinality(DOMAIN fs) = 4

\* C16: when a run puts an object, its probe was given the staged file, the
\* object holds the bytes of the run's remuxed file, and the content type
\* of the object is the media type the request declared.
C16_ProbeStagedPutRemuxed ==
    [][\A r \in Runs :
         (run[r].pc = "put" /\ "ok" \in StepArgsAfter(r, "PutObject")) =>
           LET obj == objects'[run[r].fileKey] IN
           /\ "Probe" \in Ops(r)
           /\ \A a \in StepArgs(r, "Probe") : a.input = "staged"
           /\ obj.Body = fs[ProcessingPath(run[r].tempFile)]
           /\ obj.Body.role = "remuxed" /\ obj.Body.by = r
           /\ StepArgs(r, "FormFile") = {obj.ContentType}]_vars

\* a remuxed file of full length is in the object store as video/mp4
C16_Witness ==
    \E k \in DOMAIN objects :
      /\ objects[k].Body.role = "remuxed" /\ objects[k].Body.size = Pow2(30)
      /\ objects[k].ContentType = "video/mp4"

\* the remux tool exited with status zero and left a non-empty output file
GoodRemux(r) ==
    \E a \in StepArgs(r, "Remux") : a.exit = 0 /\ a.size > 0

\* the probe exited with status zero and its output parsed and held a stream
GoodProbe(r) ==
    \E a \in StepArgs(r, "Probe") : a.exit = 0 /\ a.parsable /\ a.streams >= 1

\* C17: a run calls PutObject only after a remux that exited with status
\* zero and left a non-empty output file and a probe that exited with status
\* zero, parsed and reported a stream; a run without both ends in failure
\* with no put and no record write.
C17_PutOnlyAfterRemuxAndProbe ==
    \A r \in Runs :
      /\ "PutObject" \in Ops(r) => (GoodRemux(r) /\ GoodProbe(r))
      /\ (Done(r) /\ ~(GoodRemux(r) /\ GoodProbe(r))) =>
           /\ run[r].status \notin {0, 200}
           /\ Ops(r) \cap {"PutObject", "UpdateVideo"} = {}

\* one run ended after a remux that exited with status zero and left an
\* empty file, the other after a probe that reported no stream
C17_Witness ==
    /\ Done(1) /\ \E a \in StepArgs(1, "Remux") : a.exit = 0 /\ a.size = 0
    /\ Done(2) /\ \E a \in StepArgs(2, "Probe") : a.parsable /\ a.streams = 0

\* a failed step, whether the handler tests for the failure or not
FailedStep(s) ==
    CheckedFailure(s) \/ (s.op = "Copy" /\ s.arg = "write error")

\* C18: a run takes each of its steps at most once, and after its first
\* failed step it takes none of remux, probe, put and persist.
C18_NoRetryNoStepAfterFailure ==
    \A r \in Runs :
      \A i, j \in DOMAIN run[r].steps :
        i < j =>
          /\ run[r].steps[i].op \notin Deferred
               => run[r].steps[j].op # run[r].steps[i].op
          /\ FailedStep(run[r].steps[i])
               => run[r].steps[j].op \notin {"Remux", "Probe", "PutObject", "UpdateVideo"}

\* run r created both temporary files: the staged one, and a remuxed one
\* that its remux tool wrote
CreatedBoth(r) ==
    /\ "CreateTemp" \in Ops(r)
    /\ \E a \in StepArgs(r, "Remux") : a.wrote # "nothing"

\* the remuxed file was removed, and the staged file after it
RemovedInReverse(r) ==
    \E i, j \in DOMAIN run[r].steps :
      /\ i < j
      /\ run[r].steps[i] = Step("Remove", "processedFilePath")
      /\ run[r].steps[j] = Step("Remove", "tempFile")

\* C19: when a run that created both temporary files has ended, on the
\* success path or on a failure path, it has removed the remuxed file first
\* and the staged file after it.
C19_ReleasedInReverseOrder ==
    \A r \in Runs : (Done(r) /\ CreatedBoth(r)) => RemovedInReverse(r)

\* C20: the classification yields a bucket for every reported pair, and
\* for a reported height of 0, whatever the width, the bucket is other.
C20_ZeroHeightIsOther ==
    aout # "none" =>
      /\ aout \in {"16:9", "9:16", "other"}
      /\ ah = 0 => aout = "other"

\* 0/0 and 16/0 have been classified
C20_Witness ==
    aout = "other" /\ ah = 0 /\ aw \in {0, 16}

====
